---- MODULE Spec2Model ----
(***************************************************************************)
(* linku: relocate a file or directory tree, leave a symbolic link at the  *)
(* original path, and keep a registry (linku.toml) of the links made.      *)
(*                                                                         *)
(* Strings are sequences of one-character strings, so that escaping,      *)
(* quoting and case folding are computed the way the code computes them.   *)
(* A path is the string pathlib prints for it.                             *)
(***************************************************************************)
EXTENDS Integers, Sequences, FiniteSets, TLC

VARIABLES
    nt,        \* os.name == 'nt'
    tomllib,   \* the interpreter has tomllib (py311+); else the fallback parser
    fs,        \* the filesystem: path key -> entry
    data,      \* ConfigStore.data, the registry in memory
    disk,      \* the content of linku.toml (NoFile or a sequence of lines)
    tmp,       \* the content of linku.toml.tmp
    last,      \* what the last operation was given and what it reported
    ops        \* the number of commands given so far

vars == <<nt, tomllib, fs, data, disk, tmp, last, ops>>

----------------------------------------------------------------------------
\* Bounds of the model.

\* Largest number of files in a directory tree of the initial filesystem.
MaxFiles == 10

\* Largest number of commands given to the tool in one run of the model.
MaxOps == 3

\* Longest field value of a record given to the codec.
MaxStrLen == 2

\* Largest number of lines of a registry file given to the loader.
MaxLines == 3

\* Largest number of files of a tree given to move_dir_with_skip alone.
MaxTree == 100

----------------------------------------------------------------------------
\* Characters and strings.

QT == "\""
BS == "\\"

LowerChar(c) == IF c = "A" THEN "a" ELSE IF c = "D" THEN "d" ELSE c

\* str.lower()
Lower(s) == [i \in 1..Len(s) |-> LowerChar(s[i])]

RECURSIVE ReplaceAll(_, _, _)
\* str.replace(old, new): left to right, non-overlapping
ReplaceAll(s, old, new) ==
    IF Len(s) < Len(old) THEN s
    ELSE IF SubSeq(s, 1, Len(old)) = old
         THEN new \o ReplaceAll(SubSeq(s, Len(old) + 1, Len(s)), old, new)
         ELSE <<s[1]>> \o ReplaceAll(Tail(s), old, new)

RECURSIVE LStrip(_, _)
LStrip(s, c) == IF s # <<>> /\ s[1] = c THEN LStrip(Tail(s), c) ELSE s

RECURSIVE RStrip(_, _)
RStrip(s, c) ==
    IF s # <<>> /\ s[Len(s)] = c THEN RStrip(SubSeq(s, 1, Len(s) - 1), c) ELSE s

\* str.strip(c)
StripChar(s, c) == RStrip(LStrip(s, c), c)

----------------------------------------------------------------------------
\* Paths and the filesystem.

PA == <<"a">>
PAU == <<"A">>
PD == <<"d">>

\* The paths of the model.
Paths == {PA, PAU, PD}

\* The paths the user types: on Windows PA and PAU are two spellings of one
\* name.
UserPaths == IF nt THEN {PA, PAU, PD} ELSE {PA, PD}

NoEntry == [kind |-> "absent", n |-> 0, tgt |-> <<>>, dirmode |-> FALSE, name |-> <<>>]
FileEntry(p) == [kind |-> "file", n |-> 0, tgt |-> <<>>, dirmode |-> FALSE, name |-> p]
DirEntry(p, n) == [kind |-> "dir", n |-> n, tgt |-> <<>>, dirmode |-> FALSE, name |-> p]
LinkEntry(p, t, d) == [kind |-> "link", n |-> 0, tgt |-> t, dirmode |-> d, name |-> p]

\* The key of the entry a path names: NTFS names are case-insensitive.
Key(p) == IF nt THEN Lower(p) ELSE p

At(f, p) == f[Key(p)]

\* os.path.lexists
Present(f, p) == At(f, p).kind # "absent"

RECURSIVE Follow(_, _, _)
Follow(f, p, k) ==
    IF At(f, p).kind = "link" /\ k > 0 THEN Follow(f, At(f, p).tgt, k - 1) ELSE p

\* The path the links at p lead to.
Final(f, p) == Follow(f, p, Cardinality(Paths))

\* Path.exists(), Path.is_dir(), Path.is_file() follow links; is_symlink() does not.
Exists(f, p) == At(f, Final(f, p)).kind \in {"file", "dir"}
IsDir(f, p) == At(f, Final(f, p)).kind = "dir"
IsFile(f, p) == At(f, Final(f, p)).kind = "file"
IsSymlink(f, p) == At(f, p).kind = "link"

\* Path.resolve(): links followed, and on Windows the spelling on disk.
Resolve(f, p) ==
    LET q == Final(f, p)
    IN IF nt /\ Present(f, q) THEN At(f, q).name ELSE q

NoPath == <<>>

\* SymlinkManager.validate_path: the canonical path, NoPath when it must exist and does not
validate_path(f, p, must_exist) ==
    LET path == Resolve(f, p)
    IN IF must_exist /\ ~Exists(f, path) THEN NoPath ELSE path

Put(f, p, e) == [f EXCEPT ![Key(p)] = e]

----------------------------------------------------------------------------
\* The registry in memory and its file.

KindDir == <<"D">>      \* the type the code writes for a directory
KindFile == <<"F">>     \* the type the code writes for a file
\* datetime.now(timezone.utc).isoformat()
Times == {<<"1">>}

NoFile == <<[t |-> "nofile", k |-> "", raw |-> <<>>, v |-> 0]>>

\* The value of a key an item does not have.
Missing == <<"missing">>

FieldKeys == <<"link", "target", "type", "created_at">>

\* An item of data['links']: the four keys the tool writes, and whether the
\* item has any other key.
EmptyItem ==
    [link |-> Missing, target |-> Missing, type |-> Missing,
     created_at |-> Missing, other |-> FALSE]

NewItem(l, t, k, c) ==
    [link |-> l, target |-> t, type |-> k, created_at |-> c, other |-> FALSE]

\* bool(item): an empty dict is false
Truthy(item) == item # EmptyItem

DefaultData == [config_version |-> 1, links |-> <<>>]

\* dict.get(k, '')
Get(item, k) == IF item[k] = Missing THEN <<>> ELSE item[k]

\* A norm that would compare the paths as they are spelled.
norm_exact(p) == p

\* the norm of record_link and remove_link_record
norm(p) == IF nt THEN Lower(p) ELSE p

\* ConfigStore._escape
Escape(s) == ReplaceAll(ReplaceAll(s, <<BS>>, <<BS, BS>>), <<QT>>, <<BS, QT>>)

\* A line of the file: `key = raw`, `[[links]]`, a blank line, a comment,
\* `config_version = v` (v < 0: not an integer), or text that is no TOML.
KvLine(k, raw) == [t |-> "kv", k |-> k, raw |-> raw, v |-> 0]
HeaderLine == [t |-> "header", k |-> "", raw |-> <<>>, v |-> 0]
BlankLine == [t |-> "blank", k |-> "", raw |-> <<>>, v |-> 0]
CommentLine == [t |-> "comment", k |-> "", raw |-> <<>>, v |-> 0]
VersionLine(n) == [t |-> "version", k |-> "", raw |-> <<>>, v |-> n]
JunkLine == [t |-> "junk", k |-> "", raw |-> <<>>, v |-> 0]

RECURSIVE ItemLines(_, _)
\* the lines _dump writes for the keys i.. of one item
ItemLines(item, i) ==
    IF i > Len(FieldKeys) THEN <<>>
    ELSE (IF item[FieldKeys[i]] # Missing
          THEN <<KvLine(FieldKeys[i], <<QT>> \o Escape(item[FieldKeys[i]]) \o <<QT>>)>>
          ELSE <<>>) \o ItemLines(item, i + 1)

RECURSIVE LinksLines(_)
LinksLines(links) ==
    IF links = <<>> THEN <<>>
    ELSE <<HeaderLine>> \o ItemLines(links[1], 1) \o <<BlankLine>>
         \o LinksLines(Tail(links))

RECURSIVE RStripBlank(_)
RStripBlank(ls) ==
    IF ls # <<>> /\ ls[Len(ls)] = BlankLine
    THEN RStripBlank(SubSeq(ls, 1, Len(ls) - 1)) ELSE ls

\* ConfigStore._dump
Dump(d) ==
    RStripBlank(<<CommentLine, VersionLine(d.config_version), BlankLine>>
                \o LinksLines(d.links))

----------------------------------------------------------------------------
\* Loading the file.

\* The fallback parser's value of `key = raw`:
\* v.strip().strip('"'), then \" -> " and \\ -> \
FallbackValue(raw) ==
    ReplaceAll(ReplaceAll(StripChar(raw, QT), <<BS, QT>>, <<QT>>),
               <<BS, BS>>, <<BS>>)

RECURSIVE FallbackScan(_, _, _)
\* the loop of reload over the lines, when tomllib is missing
FallbackScan(ls, d, current) ==
    IF ls = <<>> THEN d
    ELSE LET s == ls[1]
             rest == Tail(ls)
         IN CASE s.t \in {"blank", "comment"} -> FallbackScan(rest, d, current)
              [] s.t = "version" ->
                   FallbackScan(rest,
                       IF s.v >= 0 THEN [d EXCEPT !.config_version = s.v] ELSE d,
                       current)
              [] s.t = "header" ->
                   FallbackScan(rest,
                       [d EXCEPT !.links = Append(@, EmptyItem)],
                       Len(d.links) + 1)
              [] s.t = "kv" /\ current # 0 ->
                   FallbackScan(rest,
                       [d EXCEPT !.links[current] =
                           IF s.k \in {"link", "target", "type", "created_at"}
                           THEN [@ EXCEPT ![s.k] = FallbackValue(s.raw)]
                           ELSE [@ EXCEPT !.other = TRUE]],
                       current)
              [] OTHER -> FallbackScan(rest, d, current)

RECURSIVE TomlString(_, _)
\* The rest of a TOML basic string after its opening quote, unescaped:
\* <<TRUE, value>>, or <<FALSE, ...>> when it is no basic string.
TomlString(s, acc) ==
    IF s = <<>> THEN <<FALSE, acc>>
    ELSE IF s[1] = QT THEN <<Len(s) = 1, acc>>
    ELSE IF s[1] = BS
         THEN IF Len(s) >= 2 /\ s[2] \in {BS, QT}
              THEN TomlString(SubSeq(s, 3, Len(s)), Append(acc, s[2]))
              ELSE <<FALSE, acc>>
    ELSE TomlString(Tail(s), Append(acc, s[1]))

\* tomllib's value of `key = raw`
TomlValue(raw) ==
    IF raw # <<>> /\ raw[1] = QT THEN TomlString(Tail(raw), <<>>)
    ELSE <<FALSE, <<>>>>

RECURSIVE TomlScan(_, _, _, _)
\* tomllib.load over the lines: st.ok is FALSE when the text is no TOML
\* (a key defined twice, a line that is no key/value pair, a bad value).
\* keys: the keys of the table being filled (the top level until a header).
TomlScan(ls, d, current, keys) ==
    IF ls = <<>> THEN [ok |-> TRUE, d |-> d]
    ELSE LET s == ls[1]
             rest == Tail(ls)
             key == IF s.t = "version" THEN "config_version" ELSE s.k
             val == TomlValue(s.raw)
         IN CASE s.t \in {"blank", "comment"} -> TomlScan(rest, d, current, keys)
              [] s.t = "header" ->
                   TomlScan(rest, [d EXCEPT !.links = Append(@, EmptyItem)],
                            Len(d.links) + 1, {})
              [] s.t \in {"version", "kv"} ->
                   IF key \in keys \/ (s.t = "version" /\ s.v < 0)
                      \/ (s.t = "kv" /\ ~val[1])
                   THEN [ok |-> FALSE, d |-> d]
                   ELSE TomlScan(rest,
                            IF current = 0
                            THEN (IF s.t = "version"
                                  THEN [d EXCEPT !.config_version = s.v] ELSE d)
                            ELSE [d EXCEPT !.links[current] =
                                    IF s.t = "kv" /\ s.k \in {"link", "target", "type", "created_at"}
                                    THEN [@ EXCEPT ![s.k] = val[2]]
                                    ELSE [@ EXCEPT !.other = TRUE]],
                            current, keys \cup {key})
              [] OTHER -> [ok |-> FALSE, d |-> d]

\* ConfigStore.reload: the data after loading the file content c
Reload(c, hasToml) ==
    IF c = NoFile THEN DefaultData
    ELSE IF hasToml
         THEN LET r == TomlScan(c, DefaultData, 0, {})
              IN IF r.ok THEN r.d ELSE DefaultData
         ELSE FallbackScan(c, DefaultData, 0)

----------------------------------------------------------------------------
\* ConfigStore: save, record_link, remove_link_record.

\* What a write that stops early leaves of the content c: nothing of it, or
\* all of it but the last line.
Prefixes(c) == {SubSeq(c, 1, k) : k \in {0, Len(c) - 1}}

\* A save that would write linku.toml in place.
save_in_place(d, dk, tp) ==
    LET c == Dump(d)
    IN {[ok |-> TRUE, disk |-> c, tmp |-> tp]}
       \cup {[ok |-> FALSE, disk |-> x, tmp |-> tp] : x \in Prefixes(c)}

\* ConfigStore.save: write linku.toml.tmp, then rename it over linku.toml.
\* ok is FALSE when write_text or replace raised.
save(d, dk, tp) ==
    LET c == Dump(d)
    IN {[ok |-> TRUE, disk |-> c, tmp |-> NoFile]}
       \cup {[ok |-> FALSE, disk |-> dk, tmp |-> x] : x \in Prefixes(c)}
       \cup {[ok |-> FALSE, disk |-> dk, tmp |-> c]}

\* The index of the first item whose link has the norm of key, 0 when none.
FirstMatch(links, key) ==
    LET hits == {i \in 1..Len(links) : norm(Get(links[i], "link")) = norm(key)}
    IN IF hits = {} THEN 0 ELSE CHOOSE i \in hits : \A j \in hits : i <= j

\* A record_link that would append without looking for the link's record.
record_link_append(d, link_key, target_val, link_type, now_iso) ==
    [d EXCEPT !.links = Append(@, NewItem(link_key, target_val, link_type, now_iso))]

\* ConfigStore.record_link, up to its save: the data it leaves in memory
record_link(d, link_key, target_val, link_type, now_iso) ==
    LET i == FirstMatch(d.links, link_key)
    IN IF i # 0 /\ Truthy(d.links[i])
       THEN [d EXCEPT !.links[i] =
                [@ EXCEPT !.target = target_val, !.type = link_type,
                          !.created_at = now_iso]]
       ELSE [d EXCEPT !.links =
                Append(@, NewItem(link_key, target_val, link_type, now_iso))]

RECURSIVE Without(_, _)
\* [item for item in links if norm(item.get('link', '')) != key]
Without(links, key) ==
    IF links = <<>> THEN <<>>
    ELSE IF norm(Get(links[1], "link")) # key
         THEN <<links[1]>> \o Without(Tail(links), key)
         ELSE Without(Tail(links), key)

\* A removal that would drop the record in memory and leave the file as it was.
remove_link_record_unsaved(d, dk, tp, link_path) ==
    LET links == Without(d.links, norm(link_path))
    IN {[ret |-> Len(links) # Len(d.links), raised |-> FALSE,
         data |-> [d EXCEPT !.links = links], disk |-> dk, tmp |-> tp]}

\* ConfigStore.remove_link_record: {ret, raised, data, disk, tmp}
remove_link_record(d, dk, tp, link_path) ==
    LET links == Without(d.links, norm(link_path))
        d2 == [d EXCEPT !.links = links]
    IN IF Len(links) # Len(d.links)
       THEN {[ret |-> s.ok, raised |-> ~s.ok, data |-> d2, disk |-> s.disk, tmp |-> s.tmp]
             : s \in save(d2, dk, tp)}
       ELSE {[ret |-> FALSE, raised |-> FALSE, data |-> d, disk |-> dk, tmp |-> tp]}

\* ConfigStore.get_links
get_links(d) == d.links

----------------------------------------------------------------------------
\* symlink_ops: create_symlink, delete_symlink, move_dir_with_skip.

\* A create_symlink that would put its link over whatever target holds.
create_symlink_over(f, source, target) ==
    {[ok |-> FALSE, fs |-> f],
     [ok |-> TRUE, fs |-> Put(f, target, LinkEntry(target, source, nt /\ IsDir(f, source)))]}

\* symlink_ops.create_symlink(source, target): a link at target to source.
\* mklink and os.symlink fail when target exists, and may fail otherwise.
os_create_symlink(f, source, target) ==
    {[ok |-> FALSE, fs |-> f]}
    \cup (IF Present(f, target) THEN {}
          ELSE {[ok |-> TRUE,
                 fs |-> Put(f, target, LinkEntry(target, source, nt /\ IsDir(f, source)))]})

\* Path.unlink(): removes a file or a link, raises on a directory or nothing
Unlink(f, path) ==
    {[ok |-> FALSE, fs |-> f]}
    \cup (IF At(f, path).kind \in {"file", "link"}
          THEN {[ok |-> TRUE, fs |-> Put(f, path, NoEntry)]} ELSE {})

\* cmd's rmdir: removes an empty directory or a directory link
CmdRmdir(f, path) ==
    {[ok |-> FALSE, fs |-> f]}
    \cup (IF (At(f, path).kind = "dir" /\ At(f, path).n = 0)
             \/ (At(f, path).kind = "link" /\ At(f, path).dirmode)
          THEN {[ok |-> TRUE, fs |-> Put(f, path, NoEntry)]} ELSE {})

\* cmd's del: removes a file or a file link
CmdDel(f, path) ==
    {[ok |-> FALSE, fs |-> f]}
    \cup (IF At(f, path).kind = "file"
             \/ (At(f, path).kind = "link" /\ ~At(f, path).dirmode)
          THEN {[ok |-> TRUE, fs |-> Put(f, path, NoEntry)]} ELSE {})

\* symlink_ops.delete_symlink
os_delete_symlink(f, path) ==
    {r \in Unlink(f, path) : r.ok}
    \cup (IF \E r \in Unlink(f, path) : ~r.ok
          THEN IF nt
               THEN LET is_dir_link ==
                            IF Exists(f, path) /\ IsDir(f, path) THEN TRUE
                            ELSE IF IsSymlink(f, path) THEN IsDir(f, At(f, path).tgt)
                            ELSE TRUE
                    IN IF is_dir_link THEN CmdRmdir(f, path) ELSE CmdDel(f, path)
               ELSE {[ok |-> FALSE, fs |-> f]}
          ELSE {})

\* SymlinkRedirector.remove_symlink: rmdir or del on Windows, unlink elsewhere
remove_symlink(f, link_path) ==
    IF nt
    THEN IF IsDir(f, link_path) THEN CmdRmdir(f, link_path) ELSE CmdDel(f, link_path)
    ELSE Unlink(f, link_path)

\* shutil.move of one file or of a whole tree to a path that does not exist
sh_move(f, source, target) ==
    {[ok |-> FALSE, fs |-> f]}
    \cup (IF Present(f, source) /\ ~Present(f, target)
          THEN {[ok |-> TRUE,
                 fs |-> Put(Put(f, target, [At(f, source) EXCEPT !.name = target]),
                            source, NoEntry)]}
          ELSE {})

\* success_rate >= 90.0, the rate being 100 when there are no files
RateOk(moved_count, total_files) ==
    IF total_files > 0 THEN moved_count * 100 >= 90 * total_files ELSE TRUE

\* A walk that would put the files back when it moved too few of them.
WalkUndo(f, source, target) ==
    IF Present(f, target) /\ ~IsDir(f, target)
    THEN {[ok |-> FALSE, raised |-> TRUE, moved |-> 0, total |-> 0, fs |-> f]}
    ELSE LET total == At(f, source).n
             t == Final(f, target)
             base == At(f, t).n
         IN {[ok |-> FALSE, raised |-> TRUE, moved |-> 0, total |-> 0, fs |-> f]}
            \cup {[ok |-> RateOk(m, total), raised |-> FALSE, moved |-> m, total |-> total,
                   fs |-> IF RateOk(m, total)
                          THEN Put(Put(f, t, DirEntry(IF Present(f, t) THEN At(f, t).name ELSE t,
                                                      base + m)),
                                   source,
                                   IF m = total /\ gone THEN NoEntry
                                   ELSE DirEntry(At(f, source).name, total - m))
                          ELSE f]
                  : m \in 0..total, gone \in BOOLEAN}

\* A walk whose cleanup would remove the source root with what is left in it.
WalkPurge(f, source, target) ==
    IF Present(f, target) /\ ~IsDir(f, target)
    THEN {[ok |-> FALSE, raised |-> TRUE, moved |-> 0, total |-> 0, fs |-> f]}
    ELSE LET total == At(f, source).n
             t == Final(f, target)
             base == At(f, t).n
         IN {[ok |-> FALSE, raised |-> TRUE, moved |-> 0, total |-> 0, fs |-> f]}
            \cup {[ok |-> RateOk(m, total), raised |-> FALSE, moved |-> m, total |-> total,
                   fs |-> Put(Put(f, t, DirEntry(IF Present(f, t) THEN At(f, t).name ELSE t,
                                                 base + m)),
                              source, NoEntry)]
                  : m \in 0..total}

\* The walk of move_dir_with_skip after the whole move failed. target.mkdir
\* raises when target is there and is no directory (raised: the outer except
\* returned False, 0, 0); then every file is moved
\* or left (a move that raised, a directory that could not be made), and the
\* source root is removed when it is empty and rmdir does not raise.
Walk(f, source, target) ==
    IF Present(f, target) /\ ~IsDir(f, target)
    THEN {[ok |-> FALSE, raised |-> TRUE, moved |-> 0, total |-> 0, fs |-> f]}
    ELSE LET total == At(f, source).n
             t == Final(f, target)
             base == At(f, t).n
         IN {[ok |-> FALSE, raised |-> TRUE, moved |-> 0, total |-> 0, fs |-> f]}
            \cup {[ok |-> RateOk(m, total), raised |-> FALSE, moved |-> m, total |-> total,
                   fs |-> Put(Put(f, t, DirEntry(IF Present(f, t) THEN At(f, t).name ELSE t,
                                                 base + m)),
                              source,
                              IF m = total /\ gone THEN NoEntry
                              ELSE DirEntry(At(f, source).name, total - m))]
                  : m \in 0..total, gone \in BOOLEAN}

\* symlink_ops.move_dir_with_skip: {ok, moved, total, fs}
move_dir_with_skip(f, source, target) ==
    {[ok |-> TRUE, raised |-> FALSE, moved |-> 0, total |-> 0, fs |-> r.fs]
       : r \in {x \in sh_move(f, source, target) : x.ok}}
    \cup Walk(f, source, target)

\* success_rate >= 90.0 in __main__.py, the rate being 0 when there are no files
RateOkMain(moved_count, total_files) ==
    IF total_files > 0 THEN moved_count * 100 >= 90 * total_files ELSE FALSE

\* SymlinkManager.move_directory_with_skip of __main__.py: the same whole
\* move, walk and cleanup, with its own rate; it returns ok alone, moved and
\* total are the counts it prints.
move_directory_with_skip(f, source, target) ==
    {[ok |-> TRUE, raised |-> FALSE, moved |-> 0, total |-> 0, fs |-> r.fs]
       : r \in {x \in sh_move(f, source, target) : x.ok}}
    \cup {[r EXCEPT !.ok = ~r.raised /\ RateOkMain(r.moved, r.total)]
            : r \in Walk(f, source, target)}

----------------------------------------------------------------------------
\* SymlinkManager: create_symlink, move_and_link, resolve_move_target.

\* A create_symlink that would write the record whatever became of the link.
create_symlink_recorded(f, d, dk, tp, source, target, now_iso) ==
    UNION {
        LET d2 == record_link(d, target, source,
                      IF IsDir(c.fs, source) THEN KindDir ELSE KindFile, now_iso)
        IN {[ret |-> c.ok /\ s.ok, raised |-> ~s.ok, linked |-> c.ok, fs |-> c.fs,
             data |-> d2, disk |-> s.disk, tmp |-> s.tmp] : s \in save(d2, dk, tp)}
        : c \in os_create_symlink(f, source, target)}

\* SymlinkManager.create_symlink(source, target): the link, then its record.
\* raised: record_link's save raised, after the link was made.
create_symlink(f, d, dk, tp, source, target, now_iso) ==
    UNION {
        IF c.ok
        THEN LET d2 == record_link(d, target, source,
                           IF IsDir(c.fs, source) THEN KindDir ELSE KindFile, now_iso)
             IN {[ret |-> s.ok, raised |-> ~s.ok, linked |-> TRUE, fs |-> c.fs,
                  data |-> d2, disk |-> s.disk, tmp |-> s.tmp] : s \in save(d2, dk, tp)}
        ELSE {[ret |-> FALSE, raised |-> FALSE, linked |-> FALSE, fs |-> f,
               data |-> d, disk |-> dk, tmp |-> tp]}
        : c \in os_create_symlink(f, source, target)}

\* The except branch of move_and_link: move target back when it is there and
\* source is not.
Rollback(f, source, target) ==
    IF Exists(f, target) /\ ~Exists(f, source)
    THEN {[tried |-> TRUE, rolled |-> r.ok, fs |-> r.fs] : r \in sh_move(f, target, source)}
    ELSE {[tried |-> FALSE, rolled |-> FALSE, fs |-> f]}

\* What move_and_link does once the move is over: the link and its record on
\* a move that succeeded, the except branch when create_symlink raised or
\* when console.print raised between the move and create_symlink.
AfterMove(m, d, dk, tp, source, target, now_iso) ==
    {[ret |-> FALSE, moveOk |-> TRUE, linked |-> FALSE, raised |-> TRUE,
      tried |-> b.tried, rolled |-> b.rolled, moved |-> m.moved,
      total |-> m.total, fs |-> b.fs, data |-> d, disk |-> dk, tmp |-> tp]
     : b \in Rollback(m.fs, source, target)}
    \cup UNION {
        IF c.raised
        THEN {[ret |-> FALSE, moveOk |-> TRUE, linked |-> c.linked, raised |-> TRUE,
               tried |-> b.tried, rolled |-> b.rolled, moved |-> m.moved,
               total |-> m.total, fs |-> b.fs, data |-> c.data, disk |-> c.disk, tmp |-> c.tmp]
              : b \in Rollback(c.fs, source, target)}
        ELSE {[ret |-> c.ret, moveOk |-> TRUE, linked |-> c.linked, raised |-> FALSE,
               tried |-> FALSE, rolled |-> FALSE, moved |-> m.moved,
               total |-> m.total, fs |-> c.fs, data |-> c.data, disk |-> c.disk, tmp |-> c.tmp]}
        : c \in create_symlink(m.fs, d, dk, tp, target, source, now_iso)}

\* SymlinkManager.move_and_link(source, target). The parent of target is the
\* root of the filesystem, so target.parent.mkdir has nothing to do.
move_and_link(f, d, dk, tp, source, target, now_iso) ==
    IF IsFile(f, source)
    THEN UNION {
            IF m.ok
            THEN AfterMove([ok |-> TRUE, moved |-> 0, total |-> 0, fs |-> m.fs],
                           d, dk, tp, source, target, now_iso)
            ELSE {[ret |-> FALSE, moveOk |-> FALSE, linked |-> FALSE, raised |-> TRUE,
                   tried |-> b.tried, rolled |-> b.rolled, moved |-> 0, total |-> 0,
                   fs |-> b.fs, data |-> d, disk |-> dk, tmp |-> tp]
                  : b \in Rollback(m.fs, source, target)}
            : m \in sh_move(f, source, target)}
    ELSE UNION {
            IF m.ok
            THEN AfterMove(m, d, dk, tp, source, target, now_iso)
            ELSE {[ret |-> FALSE, moveOk |-> FALSE, linked |-> FALSE, raised |-> FALSE,
                   tried |-> FALSE, rolled |-> FALSE, moved |-> m.moved,
                   total |-> m.total, fs |-> m.fs, data |-> d, disk |-> dk, tmp |-> tp]}
            : m \in move_dir_with_skip(f, source, target)}

\* target_input / source.name
Join(dir, name) == dir \o <<"/">> \o name

\* A plan that would take the target as it was typed.
resolve_as_typed(f, source, target_input) ==
    [final |-> target_input, err |-> ""]

\* SymlinkManager.resolve_move_target: the final target and the error, "" for
\* none. A final target that is no path of the filesystem f is reported
\* "outside".
resolve_move_target(f, source, target_input) ==
    IF IsDir(f, source)
    THEN IF Exists(f, target_input)
         THEN [final |-> target_input, err |-> "target exists"]
         ELSE [final |-> target_input, err |-> ""]
    ELSE IF Exists(f, target_input)
         THEN IF IsDir(f, target_input)
              THEN LET final == Join(target_input, source)
                   IN IF Key(final) \notin DOMAIN f THEN [final |-> final, err |-> "outside"]
                      ELSE IF Exists(f, final)
                           THEN [final |-> final, err |-> "target file exists"]
                           ELSE [final |-> final, err |-> ""]
              ELSE [final |-> target_input, err |-> "target file exists"]
         ELSE [final |-> target_input, err |-> ""]

----------------------------------------------------------------------------
\* The program: one process of the tool at its menu.

\* What the last operation was given and what it reported. kind: what the
\* path typed was before; type, existed, prev: the type given to record_link, whether
\* the link had a record and that record's target; kept: the records saved,
\* or the file as it was; said: what was printed; snap: the list get_links
\* gave; failed: the failed_files of a walk.
NoLast ==
    [op |-> "none", src |-> NoPath, dst |-> NoPath, ret |-> "", moveOk |-> FALSE,
     linked |-> FALSE, raised |-> FALSE, tried |-> FALSE, rolled |-> FALSE,
     moved |-> 0, total |-> 0, purged |-> FALSE, wasDir |-> FALSE,
     kind |-> "", type |-> <<>>, existed |-> FALSE, prev |-> <<>>, kept |-> <<>>,
     said |-> <<>>, snap |-> <<>>, failed |-> <<>>]

\* The filesystem the tool is started in: at PA nothing, a file, a directory
\* tree or a link to PD; at PD nothing, a file or a directory.
InitEntries(f, p) ==
    IF p = PA
    THEN {NoEntry, FileEntry(p), LinkEntry(p, PD, nt /\ f[PD].kind = "dir")}
         \cup {DirEntry(p, n) : n \in {0, 1, MaxFiles}}
    ELSE IF p = PD THEN {NoEntry, FileEntry(p), DirEntry(p, 1)}
    ELSE {NoEntry}

InitFs ==
    {f \in [Paths -> {NoEntry, FileEntry(PA), FileEntry(PD), DirEntry(PD, 1),
                      LinkEntry(PA, PD, FALSE), LinkEntry(PA, PD, TRUE)}
                     \cup {DirEntry(PA, n) : n \in {0, 1, MaxFiles}}] :
        \A p \in Paths : f[p] \in InitEntries(f, p)}

\* The registry file an earlier run left: none, or one with a record of PA.
InitDisk(f) ==
    {NoFile,
     Dump([DefaultData EXCEPT !.links =
             <<NewItem(PA, PD, IF f[PD].kind = "dir" THEN KindDir ELSE KindFile,
                       <<"0">>)>>])}

\* ConfigStore.__init__: the file is loaded
Init ==
    /\ nt \in BOOLEAN
    /\ tomllib \in BOOLEAN
    /\ fs \in InitFs
    /\ disk \in InitDisk(fs)
    /\ data = Reload(disk, tomllib)
    /\ tmp = NoFile
    /\ last = NoLast
    /\ ops = 0

\* One more command is given.
Tick == ops < MaxOps /\ ops' = ops + 1

\* A create_move_symlink that would record the link before the plan is made.
PlanRecordedFirst(src_input, dst_input) ==
    LET source == validate_path(fs, src_input, TRUE)
        target_input == validate_path(fs, dst_input, FALSE)
        plan == resolve_move_target(fs, source, target_input)
    IN /\ source # NoPath
       /\ plan.err \notin {"", "outside"}
       /\ data' = record_link(data, source, plan.final, KindFile, <<"1">>)
       /\ disk' = Dump(data')
       /\ last' = [NoLast EXCEPT !.op = "plan", !.src = source, !.dst = plan.final,
                                 !.ret = plan.err, !.wasDir = IsDir(fs, source)]
       /\ UNCHANGED <<nt, tomllib, fs, tmp>>
       /\ Tick

\* create_move_symlink answered with a target the plan refuses: it asks again
PlanRefused(src_input, dst_input) ==
    LET source == validate_path(fs, src_input, TRUE)
        target_input == validate_path(fs, dst_input, FALSE)
        plan == resolve_move_target(fs, source, target_input)
    IN /\ source # NoPath
       /\ plan.err \notin {"", "outside"}
       /\ last' = [NoLast EXCEPT !.op = "plan", !.src = source, !.dst = plan.final,
                                 !.ret = plan.err, !.wasDir = IsDir(fs, source)]
       /\ UNCHANGED <<nt, tomllib, fs, data, disk, tmp>>
       /\ Tick

\* SymlinkManager.create_move_symlink, confirmed
CreateMoveSymlink(src_input, dst_input, now_iso) ==
    LET source == validate_path(fs, src_input, TRUE)
        target_input == validate_path(fs, dst_input, FALSE)
        plan == resolve_move_target(fs, source, target_input)
    IN /\ source # NoPath
       /\ plan.err = ""
       /\ \E r \in move_and_link(fs, data, disk, tmp, source, plan.final, now_iso) :
            /\ fs' = r.fs
            /\ data' = r.data
            /\ disk' = r.disk
            /\ tmp' = r.tmp
            /\ last' = [NoLast EXCEPT !.op = "relocate", !.src = source,
                          !.dst = plan.final, !.ret = IF r.ret THEN "ok" ELSE "failed",
                          !.moveOk = r.moveOk, !.linked = r.linked, !.raised = r.raised,
                          !.tried = r.tried, !.rolled = r.rolled, !.moved = r.moved, !.total = r.total,
                          !.wasDir = IsDir(fs, source)]
       /\ UNCHANGED <<nt, tomllib>>
       /\ Tick

\* create_direct_symlink answered with a link path that exists: it asks again
DirectRefused(target_input, link_input) ==
    LET target == validate_path(fs, target_input, TRUE)
        link == validate_path(fs, link_input, FALSE)
    IN /\ target # NoPath
       /\ Exists(fs, link)
       /\ last' = [NoLast EXCEPT !.op = "direct", !.src = target, !.dst = link,
                                 !.ret = "exists", !.kind = At(fs, link_input).kind]
       /\ UNCHANGED <<nt, tomllib, fs, data, disk, tmp>>
       /\ Tick

\* SymlinkManager.create_direct_symlink, confirmed. An exception of
\* record_link's save is caught by nothing: the process ends, and the next one
\* loads the file.
CreateDirectSymlink(target_input, link_input, now_iso) ==
    LET target == validate_path(fs, target_input, TRUE)
        link == validate_path(fs, link_input, FALSE)
    IN /\ target # NoPath
       /\ ~Exists(fs, link)
       /\ \E r \in create_symlink(fs, data, disk, tmp, target, link, now_iso) :
            /\ fs' = r.fs
            /\ data' = IF r.raised THEN Reload(r.disk, tomllib) ELSE r.data
            /\ disk' = r.disk
            /\ tmp' = r.tmp
            /\ last' = [NoLast EXCEPT !.op = "direct", !.src = target, !.dst = link,
                          !.ret = IF r.raised THEN "raised"
                                  ELSE IF r.ret THEN "ok" ELSE "failed",
                          !.linked = r.linked, !.raised = r.raised,
                          !.kind = At(fs, link_input).kind]
       /\ UNCHANGED <<nt, tomllib>>
       /\ Tick

\* delete_symlink_interactive on a path that is not there and is no link:
\* the record of the path, if any, is removed
DeleteStale(link) ==
    /\ ~Exists(fs, link) /\ ~IsSymlink(fs, link)
    /\ \E r \in remove_link_record(data, disk, tmp, link) :
         /\ data' = IF r.raised THEN Reload(r.disk, tomllib) ELSE r.data
         /\ disk' = r.disk
         /\ tmp' = r.tmp
         /\ last' = [NoLast EXCEPT !.op = "delete", !.dst = link,
                       !.ret = IF r.raised THEN "raised" ELSE "stale",
                       !.purged = r.ret, !.raised = r.raised,
                       !.kind = At(fs, link).kind,
                       !.said = IF r.raised THEN <<"gone">>
                                ELSE IF r.ret THEN <<"gone", "record removed">>
                                ELSE <<"gone", "no record">>]
    /\ UNCHANGED <<nt, tomllib, fs>>
    /\ Tick

\* A delete that would not look at what the path is.
DeleteUnchecked(link) ==
    /\ Exists(fs, link) /\ ~IsSymlink(fs, link)
    /\ \E x \in os_delete_symlink(fs, link) :
         /\ fs' = x.fs
         /\ last' = [NoLast EXCEPT !.op = "delete", !.dst = link,
                                   !.ret = IF x.ok THEN "ok" ELSE "failed"]
    /\ UNCHANGED <<nt, tomllib, data, disk, tmp>>
    /\ Tick

\* delete_symlink_interactive on a path that is there and is no link
DeleteRefused(link) ==
    /\ Exists(fs, link) /\ ~IsSymlink(fs, link)
    /\ last' = [NoLast EXCEPT !.op = "delete", !.dst = link, !.ret = "notalink",
                              !.kind = At(fs, link).kind, !.said = <<"not a link">>]
    /\ UNCHANGED <<nt, tomllib, fs, data, disk, tmp>>
    /\ Tick

\* A delete that would purge the record whether or not the link was removed.
DeletePurgeAlways(link, confirm) ==
    /\ IsSymlink(fs, link) /\ confirm
    /\ \E x \in os_delete_symlink(fs, link), r \in remove_link_record(data, disk, tmp, link) :
         /\ fs' = x.fs
         /\ data' = r.data
         /\ disk' = r.disk
         /\ tmp' = r.tmp
         /\ last' = [NoLast EXCEPT !.op = "delete", !.dst = link,
                       !.ret = IF x.ok THEN "ok" ELSE "failed",
                       !.purged = r.ret, !.kind = At(fs, link).kind]
    /\ UNCHANGED <<nt, tomllib>>
    /\ Tick

\* delete_symlink_interactive on a link: asked, then removed and its record purged
DeleteLink(link, confirm) ==
    /\ IsSymlink(fs, link)
    /\ IF ~confirm
       THEN /\ last' = [NoLast EXCEPT !.op = "delete", !.dst = link, !.ret = "cancel",
                                      !.kind = At(fs, link).kind,
                                      !.said = <<"cancelled">>]
            /\ UNCHANGED <<fs, data, disk, tmp>>
       ELSE \E x \in os_delete_symlink(fs, link) :
              /\ fs' = x.fs
              /\ IF x.ok
                 THEN \E r \in remove_link_record(data, disk, tmp, link) :
                        /\ data' = IF r.raised THEN Reload(r.disk, tomllib) ELSE r.data
                        /\ disk' = r.disk
                        /\ tmp' = r.tmp
                        /\ last' = [NoLast EXCEPT !.op = "delete", !.dst = link,
                                      !.ret = IF r.raised THEN "raised" ELSE "ok",
                                      !.purged = r.ret, !.raised = r.raised,
                                      !.kind = At(fs, link).kind,
                                      !.said = IF r.raised THEN <<"link removed">>
                                               ELSE IF r.ret
                                               THEN <<"link removed", "record removed">>
                                               ELSE <<"link removed", "no record">>]
                 ELSE /\ last' = [NoLast EXCEPT !.op = "delete", !.dst = link,
                                    !.ret = "failed", !.kind = At(fs, link).kind,
                                    !.said = <<"link not removed">>]
                      /\ UNCHANGED <<data, disk, tmp>>
    /\ UNCHANGED <<nt, tomllib>>
    /\ Tick

\* SymlinkManager.delete_symlink_interactive: the path is used as typed
DeleteSymlinkInteractive(link, confirm) ==
    \/ DeleteStale(link)
    \/ DeleteRefused(link)
    \/ DeleteLink(link, confirm)

\* The tool is left and started again: ConfigStore.__init__ loads the file
Restart ==
    /\ data' = Reload(disk, tomllib)
    /\ last' = [NoLast EXCEPT !.op = "restart"]
    /\ UNCHANGED <<nt, tomllib, fs, disk, tmp>>
    /\ Tick

Next ==
    \/ \E s \in UserPaths, t \in UserPaths : PlanRefused(s, t)
    \/ \E s \in UserPaths, t \in UserPaths, now \in Times : CreateMoveSymlink(s, t, now)
    \/ \E t \in UserPaths, l \in UserPaths, now \in Times : CreateDirectSymlink(t, l, now)
    \/ \E l \in UserPaths, c \in BOOLEAN : DeleteSymlinkInteractive(l, c)
    \/ Restart

Spec == Init /\ [][Next]_vars

----------------------------------------------------------------------------
\* The registry alone: record_link and remove_link_record called in any
\* order on one ConfigStore, and the store made anew from its file.

InitRegistry ==
    /\ nt \in BOOLEAN
    /\ tomllib \in BOOLEAN
    /\ fs = [p \in Paths |-> NoEntry]
    /\ disk \in {NoFile, Dump([DefaultData EXCEPT !.links = <<NewItem(PA, PD, KindDir, <<"0">>)>>])}
    /\ data = Reload(disk, tomllib)
    /\ tmp = NoFile
    /\ last = NoLast
    /\ ops = 0

\* ConfigStore.record_link(link_path, target_path, link_type): the record is
\* put in memory, then saved; an exception of save leaves it in memory.
RecordLink(link_path, target_path, link_type, now_iso) ==
    LET i == FirstMatch(data.links, link_path)
        d2 == record_link(data, link_path, target_path, link_type, now_iso)
    IN /\ \E s \in save(d2, disk, tmp) :
            /\ data' = d2
            /\ disk' = s.disk
            /\ tmp' = s.tmp
            /\ last' = [NoLast EXCEPT !.op = "upsert", !.dst = link_path,
                          !.src = target_path, !.type = link_type,
                          !.ret = IF s.ok THEN "ok" ELSE "raised", !.raised = ~s.ok,
                          !.existed = (i # 0),
                          !.prev = IF i # 0 THEN Get(data.links[i], "target") ELSE <<>>]
       /\ UNCHANGED <<nt, tomllib, fs>>
       /\ Tick

\* "d/../a": a spelling of PA that Path keeps as it was typed
PAX == Join(Join(PD, <<".", ".">>), PA)

\* The paths a user can type where a link is asked for
TypedPaths == UserPaths \cup {PAX}

\* Path.resolve() of a spelling none of whose entries is a link: `x/../` is dropped
Canonical(p) ==
    IF Len(p) > 5 /\ SubSeq(p, 2, 5) = <<"/", ".", ".", "/">>
    THEN SubSeq(p, 6, Len(p))
    ELSE p

\* The records of d whose link is a spelling of the path p is a spelling of
SamePathAs(d, p) ==
    {i \in 1..Len(d.links) : Key(Canonical(Get(d.links[i], "link"))) = Key(Canonical(p))}

\* ConfigStore.remove_link_record(link_path)
RemoveLinkRecord(link_path) ==
    /\ \E r \in remove_link_record(data, disk, tmp, link_path) :
         /\ data' = r.data
         /\ disk' = r.disk
         /\ tmp' = r.tmp
         /\ last' = [NoLast EXCEPT !.op = "remove", !.dst = link_path,
                       !.ret = IF r.raised THEN "raised" ELSE IF r.ret THEN "ok" ELSE "none",
                       !.purged = (Len(r.data.links) # Len(data.links)),
                       !.existed = (SamePathAs(data, link_path) # {}),
                       !.raised = r.raised]
    /\ UNCHANGED <<nt, tomllib, fs>>
    /\ Tick

NextRegistry ==
    \/ \E l \in UserPaths, c \in {<<PD, KindDir>>, <<PA, KindFile>>}, now \in Times :
          RecordLink(l, c[1], c[2], now)
    \/ \E l \in TypedPaths : RemoveLinkRecord(l)
    \/ Restart

SpecRegistry == InitRegistry /\ [][NextRegistry]_vars

\* Another invocation of the tool on the same registry file: its ConfigStore
\* loads the file, records a link and saves. This process's registry in memory
\* is not told.
OtherInvocation(link_path, target_path, link_type, now_iso) ==
    LET theirs == record_link(Reload(disk, tomllib), link_path, target_path,
                              link_type, now_iso)
    IN /\ \E s \in save(theirs, disk, tmp) :
            /\ disk' = s.disk
            /\ tmp' = s.tmp
            /\ last' = [NoLast EXCEPT !.op = IF s.ok THEN "other" ELSE "other_raised",
                          !.dst = link_path, !.src = target_path, !.type = link_type,
                          !.raised = ~s.ok]
       /\ UNCHANGED <<nt, tomllib, fs, data>>
       /\ Tick

NextShared ==
    \/ \E l \in UserPaths, c \in {<<PD, KindDir>>, <<PA, KindFile>>}, now \in Times :
          RecordLink(l, c[1], c[2], now)
    \/ \E l \in TypedPaths : RemoveLinkRecord(l)
    \/ Restart
    \/ \E l \in UserPaths, now \in Times : OtherInvocation(l, PD, KindDir, now)

\* The registry used by this process while other invocations of the tool write the file
SpecShared == InitRegistry /\ [][NextShared]_vars

----------------------------------------------------------------------------
\* The codec: a registry is saved and loaded again.

Chars == {"a", QT, BS}

\* The strings of at most n characters.
Strings(n) == UNION {[1..k -> Chars] : k \in 0..n}

\* A record of plain values.
PlainItem == NewItem(PD, PA, KindFile, <<"0">>)

\* The registries given to the codec: none, one or two records.
CodecLinks ==
    {<<>>}
    \cup {<<NewItem(l, t, KindDir, <<"1">>)>> : l \in Strings(MaxStrLen), t \in Strings(MaxStrLen)}
    \cup {<<PlainItem, NewItem(l, t, KindDir, <<"1">>)>>
            : l \in Strings(MaxStrLen), t \in Strings(MaxStrLen)}

\* A double quote is a character of a path on POSIX only.
InitCodec ==
    /\ nt = FALSE
    /\ tomllib \in BOOLEAN
    /\ fs = [p \in Paths |-> NoEntry]
    /\ disk = NoFile
    /\ data \in {[DefaultData EXCEPT !.links = ls] : ls \in CodecLinks}
    /\ tmp = NoFile
    /\ last = NoLast
    /\ ops = 0

\* ConfigStore.save
Save ==
    /\ last.op = "none"
    /\ \E s \in save(data, disk, tmp) :
         /\ disk' = s.disk
         /\ tmp' = s.tmp
         /\ last' = [NoLast EXCEPT !.op = "save", !.ret = IF s.ok THEN "ok" ELSE "raised",
                                   !.raised = ~s.ok, !.kept = data.links]
    /\ UNCHANGED <<nt, tomllib, fs, data>>
    /\ Tick

\* ConfigStore.reload of the file that was saved
LoadSaved ==
    /\ last.op = "save" /\ last.ret = "ok"
    /\ data' = Reload(disk, tomllib)
    /\ last' = [last EXCEPT !.op = "load"]
    /\ UNCHANGED <<nt, tomllib, fs, disk, tmp>>
    /\ Tick

NextCodec == Save \/ LoadSaved

SpecCodec == InitCodec /\ [][NextCodec]_vars

----------------------------------------------------------------------------
\* The loader: ConfigStore.reload on a file of any lines.

LoadLines ==
    {CommentLine, VersionLine(1), VersionLine(-1), HeaderLine, JunkLine,
     KvLine("link", <<QT, "a", QT>>), KvLine("link", <<QT, "a">>)}

\* The files of at most n lines.
LoadFiles(n) == UNION {[1..k -> LoadLines] : k \in 0..n}

InitLoad ==
    /\ nt \in BOOLEAN
    /\ tomllib \in BOOLEAN
    /\ fs = [p \in Paths |-> NoEntry]
    /\ disk \in LoadFiles(MaxLines)
    /\ data = DefaultData
    /\ tmp = NoFile
    /\ last = NoLast
    /\ ops = 0

\* A load that would write the default registry over a file it could not read.
LoadFileRepairing ==
    /\ last.op = "none"
    /\ data' = Reload(disk, tomllib)
    /\ disk' = IF disk # NoFile /\ data' = DefaultData THEN Dump(DefaultData) ELSE disk
    /\ last' = [NoLast EXCEPT !.op = "load", !.ret = "ok"]
    /\ UNCHANGED <<nt, tomllib, fs, tmp>>
    /\ Tick

\* ConfigStore.reload
LoadFile ==
    /\ last.op = "none"
    /\ data' = Reload(disk, tomllib)
    /\ last' = [NoLast EXCEPT !.op = "load", !.ret = "ok"]
    /\ UNCHANGED <<nt, tomllib, fs, disk, tmp>>
    /\ Tick

NextLoad == LoadFile

SpecLoad == InitLoad /\ [][NextLoad]_vars

----------------------------------------------------------------------------
\* The two removals of a link, called on any path.

\* symlink_ops.delete_symlink(path)
DeleteSymlink(path) ==
    /\ \E x \in os_delete_symlink(fs, path) :
         /\ fs' = x.fs
         /\ last' = [NoLast EXCEPT !.op = "delete_symlink", !.dst = path,
                       !.ret = IF x.ok THEN "ok" ELSE "failed",
                       !.kind = At(fs, path).kind]
    /\ UNCHANGED <<nt, tomllib, data, disk, tmp>>
    /\ Tick

\* SymlinkRedirector.remove_symlink(link_path)
RemoveSymlink(link_path) ==
    /\ \E x \in remove_symlink(fs, link_path) :
         /\ fs' = x.fs
         /\ last' = [NoLast EXCEPT !.op = "remove_symlink", !.dst = link_path,
                       !.ret = IF x.ok THEN "ok" ELSE "failed",
                       !.kind = At(fs, link_path).kind]
    /\ UNCHANGED <<nt, tomllib, data, disk, tmp>>
    /\ Tick

NextOps ==
    \/ \E p \in UserPaths : DeleteSymlink(p)
    \/ \E p \in UserPaths : RemoveSymlink(p)

SpecOps == Init /\ [][NextOps]_vars

----------------------------------------------------------------------------
\* The move of a tree alone: move_dir_with_skip of symlink_ops.py and
\* move_directory_with_skip of __main__.py, called on a directory PA of any
\* number of files and a target PD that is not there or is a file.

InitTree ==
    /\ nt \in BOOLEAN
    /\ tomllib = TRUE
    /\ fs \in {[p \in Paths |-> IF p = PA THEN DirEntry(PA, n)
                                ELSE IF p = PD THEN e ELSE NoEntry]
                 : n \in 0..MaxTree, e \in {NoEntry, FileEntry(PD)}}
    /\ disk = NoFile
    /\ data = DefaultData
    /\ tmp = NoFile
    /\ last = NoLast
    /\ ops = 0

\* symlink_ops.move_dir_with_skip(source, target)
MoveDirWithSkip(source, target) ==
    /\ last.op = "none"
    /\ \E r \in move_dir_with_skip(fs, source, target) :
         /\ fs' = r.fs
         /\ last' = [NoLast EXCEPT !.op = "move_dir_with_skip", !.src = source,
                       !.dst = target, !.ret = IF r.ok THEN "ok" ELSE "failed",
                       !.moveOk = r.ok, !.raised = r.raised,
                       !.moved = r.moved, !.total = r.total, !.wasDir = TRUE]
    /\ UNCHANGED <<nt, tomllib, data, disk, tmp>>
    /\ Tick

\* SymlinkManager.move_directory_with_skip(source, target) of __main__.py
MoveDirectoryWithSkip(source, target) ==
    /\ last.op = "none"
    /\ \E r \in move_directory_with_skip(fs, source, target) :
         /\ fs' = r.fs
         /\ last' = [NoLast EXCEPT !.op = "move_directory_with_skip", !.src = source,
                       !.dst = target, !.ret = IF r.ok THEN "ok" ELSE "failed",
                       !.moveOk = r.ok, !.raised = r.raised,
                       !.moved = r.moved, !.total = r.total, !.wasDir = TRUE]
    /\ UNCHANGED <<nt, tomllib, data, disk, tmp>>
    /\ Tick

NextTree ==
    \/ MoveDirWithSkip(PA, PD)
    \/ MoveDirectoryWithSkip(PA, PD)

SpecTree == InitTree /\ [][NextTree]_vars

----------------------------------------------------------------------------
\* The move of a file into a directory: the tool started in a filesystem
\* where PA is a file or a directory and the directory PD may hold an entry
\* of the name of PA.

PDA == Join(PD, PA)

InitPlan ==
    /\ nt \in BOOLEAN
    /\ tomllib = TRUE
    /\ fs \in {[p \in Paths \cup {PDA} |->
                  IF p = PA THEN a ELSE IF p = PD THEN d
                  ELSE IF p = PDA THEN c ELSE NoEntry]
                 : a \in {FileEntry(PA), DirEntry(PA, 1)},
                   d \in {NoEntry, FileEntry(PD), DirEntry(PD, 1)},
                   c \in {NoEntry, FileEntry(PDA)}}
    /\ fs[PDA] # NoEntry => fs[PD].kind = "dir"
    /\ disk \in InitDisk(fs)
    /\ data = Reload(disk, tomllib)
    /\ tmp = NoFile
    /\ last = NoLast
    /\ ops = 0

NextPlan ==
    \/ \E s \in UserPaths, t \in UserPaths : PlanRefused(s, t)
    \/ \E s \in UserPaths, t \in UserPaths, now \in Times : CreateMoveSymlink(s, t, now)

SpecPlan == InitPlan /\ [][NextPlan]_vars

----------------------------------------------------------------------------
\* The direct link with a link path that is taken: the tool started on POSIX,
\* where PAU is a third entry, a file or a directory to link to, and PA may be
\* a file, a directory or a link to PD, dangling when PD is not there.

InitDirect ==
    /\ nt = FALSE
    /\ tomllib \in BOOLEAN
    /\ fs \in {[p \in Paths |-> IF p = PA THEN a ELSE IF p = PD THEN d ELSE u]
                 : a \in {NoEntry, FileEntry(PA), DirEntry(PA, 1), LinkEntry(PA, PD, FALSE)},
                   d \in {NoEntry, FileEntry(PD), DirEntry(PD, 1)},
                   u \in {FileEntry(PAU), DirEntry(PAU, 1)}}
    /\ disk \in InitDisk(fs)
    /\ data = Reload(disk, tomllib)
    /\ tmp = NoFile
    /\ last = NoLast
    /\ ops = 0

NextDirect ==
    \/ \E t \in Paths, l \in Paths : DirectRefused(t, l)
    \/ \E t \in Paths, l \in Paths, now \in Times : CreateDirectSymlink(t, l, now)

SpecDirect == InitDirect /\ [][NextDirect]_vars

----------------------------------------------------------------------------
\* The table of the recorded links: show_recorded_links of manager.py.

\* The status column of show_recorded_links for one record
StatusOf(f, item) ==
    LET link == Get(item, "link")
        target == Get(item, "target")
        link_exists == Exists(f, link)
    IN <<IF link_exists THEN "link exists" ELSE "link missing">>
       \o (IF link_exists /\ IsSymlink(f, link)
           THEN <<IF Key(At(f, link).tgt) = Key(target)
                  THEN "points ok" ELSE "points elsewhere">>
           ELSE <<"not a symlink">>)
       \o <<IF Exists(f, target) THEN "target exists" ELSE "target missing">>

\* A filesystem and a registry of one record of PA, or of none, that need not agree
InitShow ==
    /\ nt \in BOOLEAN
    /\ tomllib = TRUE
    /\ fs \in {f \in [Paths -> {NoEntry, FileEntry(PA), DirEntry(PA, 0), FileEntry(PD),
                               DirEntry(PD, 1), FileEntry(PAU),
                               LinkEntry(PA, PD, FALSE), LinkEntry(PA, PAU, FALSE)}] :
                 /\ f[PA] \in {NoEntry, FileEntry(PA), DirEntry(PA, 0),
                               LinkEntry(PA, PD, FALSE)}
                               \cup (IF nt THEN {} ELSE {LinkEntry(PA, PAU, FALSE)})
                 /\ f[PD] \in {NoEntry, FileEntry(PD), DirEntry(PD, 1)}
                 /\ f[PAU] \in {NoEntry} \cup (IF nt THEN {} ELSE {FileEntry(PAU)})}
    /\ data \in {DefaultData}
                \cup {[DefaultData EXCEPT !.links = <<NewItem(PA, t, KindFile, <<"0">>)>>]
                        : t \in {PD, PAU}}
    /\ disk = Dump(data)
    /\ tmp = NoFile
    /\ last = NoLast
    /\ ops = 0

\* SymlinkManager.show_recorded_links: one status list for each record
ShowRecordedLinks ==
    /\ last' = [NoLast EXCEPT !.op = "show",
                  !.said = [i \in 1..Len(get_links(data)) |->
                              StatusOf(fs, get_links(data)[i])]]
    /\ UNCHANGED <<nt, tomllib, fs, data, disk, tmp>>
    /\ Tick

NextShow == ShowRecordedLinks

SpecShow == InitShow /\ [][NextShow]_vars

----------------------------------------------------------------------------
\* The list get_links returned, held by a caller while the registry is used.
\* get_links copies the list and not the dicts in it: an entry of the list held
\* is `live` while its dict is still the one in the registry's list.

\* The list held after record_link(link_key, ...) left d2 in memory: the dict
\* of the link, when held, was updated in place.
HeldAfterRecord(snap, d2, link_key) ==
    LET i == FirstMatch(d2.links, link_key)
    IN [k \in DOMAIN snap |->
          IF snap[k].live /\ norm(Get(snap[k].val, "link")) = norm(link_key)
          THEN [snap[k] EXCEPT !.val = d2.links[i]]
          ELSE snap[k]]

\* The list held after remove_link_record(link_path): the registry's new list
\* leaves the dicts of the link out.
HeldAfterRemove(snap, link_path) ==
    [k \in DOMAIN snap |->
        IF norm(Get(snap[k].val, "link")) = norm(link_path)
        THEN [snap[k] EXCEPT !.live = FALSE]
        ELSE snap[k]]

\* ConfigStore.get_links: list(self.data.get('links', []) or [])
GetLinks ==
    /\ last' = [NoLast EXCEPT !.op = "list",
                  !.snap = [i \in 1..Len(get_links(data)) |->
                              [val |-> get_links(data)[i], live |-> TRUE]]]
    /\ UNCHANGED <<nt, tomllib, fs, data, disk, tmp>>
    /\ Tick

\* ConfigStore.record_link while a list is held
RecordLinkHeld(link_path, target_path, link_type, now_iso) ==
    LET d2 == record_link(data, link_path, target_path, link_type, now_iso)
    IN /\ last.snap # <<>>
       /\ \E s \in save(d2, disk, tmp) :
            /\ data' = d2
            /\ disk' = s.disk
            /\ tmp' = s.tmp
            /\ last' = [NoLast EXCEPT !.op = "upsert", !.dst = link_path,
                          !.src = target_path, !.type = link_type,
                          !.ret = IF s.ok THEN "ok" ELSE "raised", !.raised = ~s.ok,
                          !.snap = HeldAfterRecord(last.snap, d2, link_path)]
       /\ UNCHANGED <<nt, tomllib, fs>>
       /\ Tick

\* ConfigStore.remove_link_record while a list is held
RemoveLinkRecordHeld(link_path) ==
    /\ last.snap # <<>>
    /\ \E r \in remove_link_record(data, disk, tmp, link_path) :
         /\ data' = r.data
         /\ disk' = r.disk
         /\ tmp' = r.tmp
         /\ last' = [NoLast EXCEPT !.op = "remove", !.dst = link_path,
                       !.ret = IF r.raised THEN "raised" ELSE IF r.ret THEN "ok" ELSE "none",
                       !.raised = r.raised,
                       !.snap = HeldAfterRemove(last.snap, link_path)]
    /\ UNCHANGED <<nt, tomllib, fs>>
    /\ Tick

\* The caller writes the target of the entry k of the list it holds
ModifyHeld(k, target_val) ==
    /\ k \in DOMAIN last.snap
    /\ LET i == FirstMatch(data.links, Get(last.snap[k].val, "link"))
       IN /\ data' = IF last.snap[k].live
                     THEN [data EXCEPT !.links[i].target = target_val]
                     ELSE data
          /\ last' = [NoLast EXCEPT !.op = "modify", !.src = target_val,
                        !.snap = [last.snap EXCEPT ![k].val.target = target_val]]
    /\ UNCHANGED <<nt, tomllib, fs, disk, tmp>>
    /\ Tick

NextSnapshot ==
    \/ GetLinks
    \/ \E l \in UserPaths, c \in {<<PD, KindDir>>, <<PA, KindFile>>}, now \in Times :
          RecordLinkHeld(l, c[1], c[2], now)
    \/ \E l \in UserPaths : RemoveLinkRecordHeld(l)
    \/ \E k \in 1..2, t \in {PA, PD} : ModifyHeld(k, t)

SpecSnapshot == InitRegistry /\ [][NextSnapshot]_vars

----------------------------------------------------------------------------
\* The move of a tree file by file: the walk of move_dir_with_skip and of
\* move_directory_with_skip with the tree spelled out. A tree maps the paths
\* that are there to "file" or "dir"; a name is one character.

PS == <<"s">>
PT == <<"t">>

\* The order os.scandir lists names in is one of the two orders of Names
Names == <<"f", "g", "h", "t", "u">>

KindAt(t, p) == IF p \in DOMAIN t THEN t[p] ELSE "absent"

\* p is below the directory d
IsUnder(p, d) == Len(p) > Len(d) /\ SubSeq(p, 1, Len(d) + 1) = d \o <<"/">>

\* Path.name
Name(p) == <<p[Len(p)]>>

ChildrenOf(t, d) == {p \in DOMAIN t : Len(p) = Len(d) + 2 /\ IsUnder(p, d)}

FilesUnder(t, d) == {p \in DOMAIN t : IsUnder(p, d) /\ t[p] = "file"}

\* target / Path(root).relative_to(source)
Rebase(p, source, target) == target \o SubSeq(p, Len(source) + 1, Len(p))

\* The path and its parents
Ancestors(p) == {SubSeq(p, 1, k) : k \in {j \in 1..Len(p) : j % 2 = 1}}

Rank(p) == CHOOSE k \in 1..Len(Names) : Names[k] = p[Len(p)]

RECURSIVE Listed(_, _)
\* The paths of a set in the order of a listing
Listed(ps, asc) ==
    IF ps = {} THEN <<>>
    ELSE LET p == CHOOSE x \in ps :
                    \A y \in ps : IF asc THEN Rank(x) <= Rank(y) ELSE Rank(x) >= Rank(y)
         IN <<p>> \o Listed(ps \ {p}, asc)

\* Path.mkdir(parents=True, exist_ok=True); B: the paths where a call raises
MkdirP(t, d, B) ==
    IF d \in B \/ \E q \in Ancestors(d) : KindAt(t, q) = "file"
    THEN [ok |-> FALSE, tree |-> t]
    ELSE [ok |-> TRUE,
          tree |-> [q \in DOMAIN t \cup Ancestors(d) |->
                      IF q \in DOMAIN t THEN t[q] ELSE "dir"]]

\* shutil.move of the file src to dst: into dst when dst is a directory, over
\* dst when it is a file
ShMoveFile(t, src, dst, B) ==
    LET real == IF KindAt(t, dst) = "dir" THEN Join(dst, Name(src)) ELSE dst
    IN IF src \in B \/ (KindAt(t, dst) = "dir" /\ real \in DOMAIN t)
       THEN [ok |-> FALSE, tree |-> t]
       ELSE [ok |-> TRUE,
             tree |-> [q \in (DOMAIN t \ {src}) \cup {real} |->
                         IF q = real THEN "file" ELSE t[q]]]

RECURSIVE MoveFiles(_, _, _, _)
\* for fn in files: the move of each file, counted or recorded as failed
MoveFiles(st, files, dst_dir, B) ==
    IF files = <<>> THEN st
    ELSE LET src == Head(files)
             r == ShMoveFile(st.tree, src, Join(dst_dir, Name(src)), B)
         IN MoveFiles(IF r.ok
                      THEN [st EXCEPT !.tree = r.tree, !.moved = @ + 1]
                      ELSE [st EXCEPT !.failed = Append(@, src)],
                      Tail(files), dst_dir, B)

RECURSIVE VisitDir(_, _, _, _, _, _)
RECURSIVE VisitDirs(_, _, _, _, _, _)
\* One directory of `for root, dirs, files in os.walk(source)`: the directory
\* is listed, its files are moved unless dst_dir could not be made, then the
\* directories listed are walked.
VisitDir(st, root, source, target, B, asc) ==
    LET files == Listed({p \in ChildrenOf(st.tree, root) : st.tree[p] = "file"}, asc)
        dirs == Listed({p \in ChildrenOf(st.tree, root) : st.tree[p] = "dir"}, asc)
        dst_dir == Rebase(root, source, target)
        mk == MkdirP(st.tree, dst_dir, B)
        st1 == IF mk.ok
               THEN MoveFiles([st EXCEPT !.tree = mk.tree], files, dst_dir, B)
               ELSE st
    IN VisitDirs(st1, dirs, source, target, B, asc)

VisitDirs(st, dirs, source, target, B, asc) ==
    IF dirs = <<>> THEN st
    ELSE VisitDirs(VisitDir(st, Head(dirs), source, target, B, asc),
                   Tail(dirs), source, target, B, asc)

RECURSIVE RemoveEmpty(_, _, _)
\* The bottom-up walk of the cleanup: every directory below source that is
\* empty when its turn comes is removed, unless rmdir raises
RemoveEmpty(t, source, B) ==
    LET empty == {p \in DOMAIN t : /\ IsUnder(p, source) /\ t[p] = "dir"
                                   /\ ChildrenOf(t, p) = {} /\ p \notin B}
    IN IF empty = {} THEN t
       ELSE LET p == CHOOSE x \in empty : TRUE
            IN RemoveEmpty([q \in DOMAIN t \ {p} |-> t[q]], source, B)

\* The cleanup: the empty directories, then the source root when it is empty
Cleanup(t, source, B) ==
    LET t1 == RemoveEmpty(t, source, B)
    IN IF KindAt(t, source) # "dir" THEN t
       ELSE IF ChildrenOf(t1, source) = {} /\ source \notin B
            THEN [q \in DOMAIN t1 \ {source} |-> t1[q]]
            ELSE t1

\* shutil.move(source, target) of a directory: into target when target is a
\* directory; it raises when the place is taken or is inside source
ShMoveTree(t, source, target) ==
    LET real == IF KindAt(t, target) = "dir" THEN Join(target, Name(source)) ELSE target
        moved == {p \in DOMAIN t : p = source \/ IsUnder(p, source)}
    IN IF real \in DOMAIN t \/ real = source \/ IsUnder(real, source)
       THEN [ok |-> FALSE, tree |-> t]
       ELSE [ok |-> TRUE,
             tree |-> [q \in (DOMAIN t \ moved) \cup {Rebase(p, source, real) : p \in moved} |->
                         IF q \in DOMAIN t \ moved THEN t[q]
                         ELSE t[Rebase(q, real, source)]]]

\* symlink_ops.move_dir_with_skip on a tree; whole: the move of the whole tree
\* does not raise for a reason of its own. The result has the counts returned,
\* failed_files, and raised for the outer except.
move_dir_with_skip_tree(t, source, target, whole, B, asc) ==
    LET w == ShMoveTree(t, source, target)
        mk == MkdirP(t, target, B)
        total == Cardinality(FilesUnder(mk.tree, source))
        st == VisitDir([tree |-> mk.tree, moved |-> 0, failed |-> <<>>],
                       source, source, target, B, asc)
    IN IF whole /\ w.ok
       THEN [ok |-> TRUE, raised |-> FALSE, moved |-> 0, total |-> 0, failed |-> <<>>,
             tree |-> w.tree]
       ELSE IF ~mk.ok
       THEN [ok |-> FALSE, raised |-> TRUE, moved |-> 0, total |-> 0, failed |-> <<>>,
             tree |-> t]
       ELSE [ok |-> RateOk(st.moved, total), raised |-> FALSE, moved |-> st.moved,
             total |-> total, failed |-> st.failed,
             tree |-> Cleanup(st.tree, source, B)]

\* SymlinkManager.move_directory_with_skip of __main__.py on a tree
move_directory_with_skip_tree(t, source, target, whole, B, asc) ==
    LET r == move_dir_with_skip_tree(t, source, target, whole, B, asc)
    IN IF (whole /\ ShMoveTree(t, source, target).ok) \/ r.raised THEN r
       ELSE [r EXCEPT !.ok = RateOkMain(r.moved, r.total)]

\* The trees a move starts from: under PS the files f and h and the directory
\* u with the file g, any of them; the target is PT, beside the source, or
\* s/t, inside it; at PT nothing, a file, or a directory that is empty, holds
\* a file u or holds a directory f.
InitWalk ==
    /\ nt = FALSE
    /\ tomllib = TRUE
    /\ \E src \in SUBSET {Join(PS, <<"f">>), Join(PS, <<"h">>), Join(PS, <<"u">>),
                          Join(Join(PS, <<"u">>), <<"g">>), Join(PS, <<"t">>)},
          tgt \in {{}, {PT}, {PT, Join(PT, <<"u">>)}, {PT, Join(PT, <<"f">>)}},
          tfile \in BOOLEAN :
         /\ Join(Join(PS, <<"u">>), <<"g">>) \in src => Join(PS, <<"u">>) \in src
         /\ tfile => tgt = {PT}
         /\ fs = [p \in {PS} \cup src \cup tgt |->
                    IF p \in {Join(PS, <<"f">>), Join(PS, <<"h">>),
                              Join(Join(PS, <<"u">>), <<"g">>), Join(PT, <<"u">>)}
                       \/ (p = PT /\ tfile)
                    THEN "file" ELSE "dir"]
    /\ data = DefaultData
    /\ disk = NoFile
    /\ tmp = NoFile
    /\ last = NoLast
    /\ ops = 0

\* The paths where a call can raise for a reason of its own: the move of a
\* file, the rmdir of the directory u, the mkdir of the directory u of the target
Faults(t, source, target) ==
    SUBSET (FilesUnder(t, source) \cup {Join(source, <<"u">>), Join(target, <<"u">>)})

\* move_dir_with_skip(source, target): source is a directory; one call is
\* made on a tree
MoveTree(source, target) ==
    /\ last.op = "none"
    /\ KindAt(fs, source) = "dir"
    /\ \E whole \in BOOLEAN, B \in Faults(fs, source, target), asc \in BOOLEAN :
         LET r == move_dir_with_skip_tree(fs, source, target, whole, B, asc)
         IN /\ fs' = r.tree
            /\ last' = [NoLast EXCEPT !.op = "move_dir_with_skip", !.src = source,
                          !.dst = target, !.moveOk = r.ok, !.raised = r.raised,
                          !.moved = r.moved, !.total = r.total, !.failed = r.failed]
    /\ UNCHANGED <<nt, tomllib, data, disk, tmp>>
    /\ Tick

\* move_directory_with_skip(source, target) of __main__.py
MoveTreeMain(source, target) ==
    /\ last.op = "none"
    /\ KindAt(fs, source) = "dir"
    /\ \E whole \in BOOLEAN, B \in Faults(fs, source, target), asc \in BOOLEAN :
         LET r == move_directory_with_skip_tree(fs, source, target, whole, B, asc)
         IN /\ fs' = r.tree
            /\ last' = [NoLast EXCEPT !.op = "move_directory_with_skip", !.src = source,
                          !.dst = target, !.moveOk = r.ok, !.raised = r.raised,
                          !.moved = r.moved, !.total = r.total, !.failed = r.failed]
    /\ UNCHANGED <<nt, tomllib, data, disk, tmp>>
    /\ Tick

NextWalk ==
    \/ \E target \in {PT, Join(PS, <<"t">>)} : MoveTree(PS, target)
    \/ \E target \in {PT, Join(PS, <<"t">>)} : MoveTreeMain(PS, target)

SpecWalk == InitWalk /\ [][NextWalk]_vars

----------------------------------------------------------------------------
\* A registry file of any content is loaded, then a link is recorded.

\* ConfigStore.record_link, the first after the load; kept: the file as it was
RecordLinkLoaded(link_path, target_path, link_type, now_iso) ==
    LET d2 == record_link(data, link_path, target_path, link_type, now_iso)
    IN /\ last.op = "load"
       /\ \E s \in save(d2, disk, tmp) :
            /\ data' = d2
            /\ disk' = s.disk
            /\ tmp' = s.tmp
            /\ last' = [NoLast EXCEPT !.op = "upsert", !.dst = link_path,
                          !.src = target_path, !.type = link_type,
                          !.ret = IF s.ok THEN "ok" ELSE "raised", !.raised = ~s.ok,
                          !.kept = disk]
       /\ UNCHANGED <<nt, tomllib, fs>>
       /\ Tick

NextDegraded ==
    \/ LoadFile
    \/ \E l \in {PA, PD}, now \in Times : RecordLinkLoaded(l, PD, KindDir, now)

SpecDegraded == InitLoad /\ [][NextDegraded]_vars

----------------------------------------------------------------------------
\* Properties of move_and_link, create_direct_symlink and
\* delete_symlink_interactive, of the behaviours of Spec.

\* The indices of the records of d whose link names the entry the path p
\* names.
RecordsOf(d, p) ==
    {i \in 1..Len(d.links) : Key(Get(d.links[i], "link")) = Key(p)}

\* The records of d that are not of the path p, in their order.
OthersOf(d, p) ==
    LET keep == {i \in 1..Len(d.links) : i \notin RecordsOf(d, p)}
        F[k \in 0..Len(d.links)] ==
            IF k = 0 THEN <<>>
            ELSE IF k \in keep THEN Append(F[k - 1], d.links[k]) ELSE F[k - 1]
    IN F[Len(d.links)]

\* C1: whenever the move of move_and_link succeeded and create_symlink then
\* reported that the link at the source path was not made, the move back to
\* the source path is attempted.
C1_RollbackAttempted ==
    (last.op = "relocate" /\ last.moveOk /\ ~last.linked /\ ~last.raised) => last.tried

\* C2: when the move of move_and_link fails (a walk below the threshold, a
\* file move that raised), no link is made at the source path, the registry
\* is as it was in memory and on disk, and the files the walk moved are at
\* the destination, the others at the source.
C2_MoveFailureStops ==
    [][(last'.op = "relocate" /\ ~last'.moveOk) =>
          /\ ~last'.linked
          /\ ~IsSymlink(fs', last'.src)
          /\ data' = data /\ disk' = disk /\ tmp' = tmp
          /\ At(fs', last'.dst).n = At(fs, last'.dst).n + last'.moved
          /\ At(fs', last'.src).n = At(fs, last'.src).n - last'.moved
          /\ (last'.moved = 0 /\ Present(fs, last'.dst)
                => At(fs', last'.dst) = At(fs, last'.dst))]_vars

\* A walk moved some files, too few, and they are at the destination.
C2_Witness ==
    /\ last.op = "relocate" /\ ~last.moveOk /\ last.wasDir
    /\ last.moved > 0 /\ last.moved < last.total
    /\ IsDir(fs, last.dst) /\ At(fs, last.dst).n = last.moved
    /\ IsDir(fs, last.src) /\ ~IsSymlink(fs, last.src)

C4_DirectLinkRecorded ==
    (last.op = "direct" /\ last.ret = "ok") =>
        /\ Cardinality(RecordsOf([links |-> get_links(data)], last.dst)) = 1
        /\ \A i \in RecordsOf([links |-> get_links(data)], last.dst) :
              get_links(data)[i].target = last.src
        /\ IsSymlink(fs, last.dst)
        /\ At(fs, last.dst).tgt = last.src
        /\ Resolve(fs, last.dst) = last.src

\* A direct link was made at a path the registry already had a record of,
\* among other records.
C4_Witness ==
    /\ last.op = "direct" /\ last.ret = "ok"
    /\ IsSymlink(fs, last.dst)
    /\ Len(data.links) >= 1
    /\ \E i \in RecordsOf(data, last.dst) : data.links[i].created_at = <<"1">>

\* C9: delete_symlink_interactive on a path that exists and is no link is
\* refused: the filesystem and the registry, in memory and on disk, are as
\* they were.
C9_DeleteRefusedOnNonLink ==
    [][(last'.op = "delete" /\ Exists(fs, last'.dst) /\ ~IsSymlink(fs, last'.dst)) =>
          /\ last'.ret = "notalink"
          /\ fs' = fs /\ data' = data /\ disk' = disk /\ tmp' = tmp]_vars

\* The delete was refused on a directory with files in it, and on a file.
C9_Witness ==
    /\ last.op = "delete" /\ last.ret = "notalink"
    /\ At(fs, last.dst).kind \in {"dir", "file"}

----------------------------------------------------------------------------
\* Properties of the registry, of the behaviours of SpecRegistry.

C6_FileReplacedWhole ==
    [][/\ (disk' = disk \/ disk' = Dump(data'))
       /\ (last'.op \in {"upsert", "remove"} /\ ~last'.raised
              /\ (last'.op = "remove" => last'.purged)
            => disk' = Dump(data') /\ tmp' = NoFile)
       /\ (last'.op \in {"upsert", "remove"} /\ last'.raised => disk' = disk)]_vars

\* A save stopped after writing a part of the temporary file: the registry
\* file is not the dump of the registry in memory.
C6_Witness ==
    /\ last.op \in {"upsert", "remove"} /\ last.raised
    /\ tmp # NoFile /\ tmp # Dump(data)
    /\ disk # Dump(data)

----------------------------------------------------------------------------
\* Properties of the codec and of the loader.

\* C7: a registry that is saved and loaded again has the records it had,
\* with the same link, target, type and created_at, with either loader.
C7_RoundTrip ==
    last.op = "load" =>
        /\ Len(data.links) = Len(last.kept)
        /\ \A i \in 1..Len(last.kept) :
              \A k \in {"link", "target", "type", "created_at"} :
                  data.links[i][k] = last.kept[i][k]

\* The text of the lines of c is no TOML document.
Malformed(c) == ~TomlScan(c, DefaultData, 0, {}).ok

\* C8: loading a file whose content is malformed leaves the default registry:
\* version 1, no records.
C8_MalformedLoadsDefault ==
    (last.op = "load" /\ Malformed(disk)) => data = DefaultData

----------------------------------------------------------------------------
\* Properties of the removal of a link, of the behaviours of SpecOps.

\* C10: delete_symlink and remove_symlink called on a file or on a directory
\* that is no link do not report a removal and leave the entry where it is.
C10_RemoveOnlyLinks ==
    (last.op \in {"delete_symlink", "remove_symlink"} /\ last.kind \in {"file", "dir"}) =>
        /\ last.ret # "ok"
        /\ At(fs, last.dst).kind = last.kind

----------------------------------------------------------------------------
\* Properties of the move of a tree, of the behaviours of SpecTree.

\* C11: a move of a tree that counted its files reports success exactly when
\* moved / total >= 90%, the rate being 100% when total is 0, and the files
\* it moved are at the destination whatever it reports.
C11_SuccessIffRate ==
    (last.op \in {"move_dir_with_skip", "move_directory_with_skip"} /\ ~last.raised) =>
        /\ last.moveOk <=> (IF last.total > 0
                            THEN last.moved * 100 >= 90 * last.total ELSE TRUE)
        /\ (last.total > 0 => At(fs, last.dst).n = last.moved)

----------------------------------------------------------------------------
\* Properties of the plan of a move, of the behaviours of SpecPlan.

\* C12: the plan of a move is given by the kind of the source, the target
\* typed and what the target is: a directory and a target that exists, an
\* error; a file and a target that is a directory D, D/name of the source, or
\* an error when that path exists; a file and a target that is a file, an
\* error; in every other case the target as typed.
C12_PlanByCases ==
    \A s \in UserPaths, t \in UserPaths :
        LET source == validate_path(fs, s, TRUE)
            typed == validate_path(fs, t, FALSE)
            plan == resolve_move_target(fs, source, typed)
            inside == Join(typed, source)
        IN source # NoPath =>
             CASE IsDir(fs, source) /\ Exists(fs, typed) ->
                      plan.err \notin {"", "outside"}
               [] IsDir(fs, source) /\ ~Exists(fs, typed) ->
                      plan = [final |-> typed, err |-> ""]
               [] IsFile(fs, source) /\ IsDir(fs, typed) ->
                      /\ plan.final = inside
                      /\ Key(inside) \in DOMAIN fs =>
                            IF Exists(fs, inside) THEN plan.err \notin {"", "outside"}
                            ELSE plan.err = ""
               [] IsFile(fs, source) /\ IsFile(fs, typed) ->
                      plan.err \notin {"", "outside"}
               [] OTHER -> plan = [final |-> typed, err |-> ""]

\* The file PA was moved into the directory PD, to PD/PA, and linked.
C12_Witness ==
    /\ last.op = "relocate" /\ last.ret = "ok" /\ ~last.wasDir
    /\ last.src = PA /\ last.dst = PDA
    /\ IsSymlink(fs, PA) /\ At(fs, PDA).kind = "file"

\* C13: when the plan of a move is an error, nothing was moved, no link was
\* made and no record was written: the filesystem, the registry in memory and
\* its file are as they were.
C13_PlanErrorChangesNothing ==
    [][last'.op = "plan" =>
          /\ last'.ret \notin {"", "outside"}
          /\ fs' = fs /\ data' = data /\ disk' = disk /\ tmp' = tmp]_vars

\* The file PA was to be moved into the directory PD, which holds an entry
\* of its name: refused, and PA is still the file.
C13_Witness ==
    /\ last.op = "plan" /\ last.ret = "target file exists"
    /\ last.src = PA /\ last.dst = PDA
    /\ At(fs, PA).kind = "file" /\ At(fs, PDA).kind = "file"

----------------------------------------------------------------------------
\* More properties of move_and_link and create_direct_symlink, of the
\* behaviours of Spec.

\* The path move_and_link or create_direct_symlink makes its link at.
LinkPathOf(l) == IF l.op = "relocate" THEN l.src ELSE l.dst

\* C14: in move_and_link and in create_direct_symlink a record is written
\* only once the link was made: when the link was not made, the registry in
\* memory and its file are as they were; when either of them changed, the
\* link is there, and unless save raised the records of the other paths are
\* as they were.
C14_RecordAfterLink ==
    [][last'.op \in {"relocate", "direct"} =>
          /\ ~last'.linked => (data' = data /\ disk' = disk /\ tmp' = tmp)
          /\ (data' # data \/ disk' # disk) =>
                /\ last'.linked
                /\ IsSymlink(fs', LinkPathOf(last'))
          /\ ~last'.raised =>
                OthersOf(data', LinkPathOf(last')) = OthersOf(data, LinkPathOf(last'))]_vars

\* The move succeeded, the link was not made, and the registry has no record
\* of the path.
C14_Witness ==
    /\ last.op = "relocate" /\ last.moveOk /\ ~last.linked /\ ~last.raised
    /\ ~IsSymlink(fs, last.src)
    /\ RecordsOf(data, last.src) = {}
    /\ RecordsOf(Reload(disk, tomllib), last.src) = {}

\* C15: when the move back of move_and_link fails, what the call reports is
\* not what it reports for a failure without a move back.
C15_RollbackFailureDistinct ==
    (last.op = "relocate" /\ last.tried /\ ~last.rolled) => last.ret # "failed"

----------------------------------------------------------------------------
\* Properties of create_direct_symlink, of the behaviours of SpecDirect.

\* C16: when the link path given to create_direct_symlink holds a file, a
\* directory or a link, dangling or not, no link is made and no record is
\* written.
C16_OccupiedLinkPathRefused ==
    (last.op = "direct" /\ last.kind # "absent") =>
        /\ ~last.linked
        /\ last.ret = "exists"

C18_BothOutcomesReported ==
    (last.op = "delete" /\ last.kind = "link" /\ last.ret \notin {"cancel", "raised"}) =>
        /\ Len(last.said) = 2
        /\ last.said[1] \in {"link removed", "link not removed"}
        /\ last.said[2] \in {"record removed", "no record"}
        /\ RecordsOf(data, last.dst) = {}

\* C19: remove_link_record under any spelling of a path of which the registry
\* holds a record removes that record and returns true, and it returns true
\* exactly when a record was removed.
C19_RemoveByCanonicalPath ==
    (last.op = "remove" /\ ~last.raised) =>
        /\ last.existed => (last.ret = "ok" /\ SamePathAs(data, last.dst) = {})
        /\ (last.ret = "ok") <=> last.purged

\* C20: a record that another invocation of the tool has written to the
\* registry file is still in the file after the next record_link or
\* remove_link_record of this process, for another path, has saved.
C20_OtherRecordKept ==
    [][(/\ last.op = "other"
        /\ last'.op \in {"upsert", "remove"} /\ ~last'.raised
        /\ disk' # disk
        /\ Key(Canonical(last'.dst)) # Key(Canonical(last.dst))) =>
          RecordsOf(Reload(disk', tomllib), last.dst) # {}]_vars

\* The statuses show_recorded_links gave for the record i
Reported(i) == {last.said[i][k] : k \in 1..Len(last.said[i])}

\* C21: for every record, the table of show_recorded_links says "link missing"
\* exactly when nothing is at the link path, "not a symlink" exactly when
\* something is there that is no link, "points elsewhere" exactly when the link
\* there points to another path than the recorded target, and "target missing"
\* exactly when the recorded target is not there.
C21_StatusExact ==
    last.op = "show" =>
        \A i \in 1..Len(data.links) :
            LET link == Get(data.links[i], "link")
                target == Get(data.links[i], "target")
            IN /\ ("link missing" \in Reported(i)) <=> ~Present(fs, link)
               /\ ("not a symlink" \in Reported(i)) <=>
                      (Present(fs, link) /\ ~IsSymlink(fs, link))
               /\ ("points elsewhere" \in Reported(i)) <=>
                      (IsSymlink(fs, link) /\ Key(At(fs, link).tgt) # Key(target))
               /\ ("target missing" \in Reported(i)) <=> ~Exists(fs, target)

\* The records of a list held
ValuesOf(snap) == [k \in DOMAIN snap |-> snap[k].val]

\* C22: the records of a list get_links returned are not changed by a later
\* record_link or remove_link_record, and writing to a record of the list does
\* not change the registry.
C22_SnapshotImmutable ==
    [][/\ (last.snap # <<>> /\ last'.op \in {"upsert", "remove"}) =>
             ValuesOf(last'.snap) = ValuesOf(last.snap)
       /\ last'.op = "modify" => data' = data]_vars

\* C23: when the walk of move_dir_with_skip or move_directory_with_skip
\* returns, every file counted in the total was either moved and counted or
\* recorded in failed_files: moved + the number of failed files = total, for
\* a target that is not inside the source.
C23_EveryFileAccounted ==
    (/\ last.op \in {"move_dir_with_skip", "move_directory_with_skip"}
     /\ ~last.raised
     /\ ~IsUnder(last.dst, last.src)) =>
        last.moved + Len(last.failed) = last.total

\* C24: after move_dir_with_skip or move_directory_with_skip returned, with
\* any result, every file of the tree that was at the source is a file at its
\* path in the source or at the same relative path in the target.
C24_FilesAtSourceOrMirror ==
    [][last'.op \in {"move_dir_with_skip", "move_directory_with_skip"} =>
         \A p \in FilesUnder(fs, last'.src) :
            \/ KindAt(fs', p) = "file"
            \/ KindAt(fs', Rebase(p, last'.src, last'.dst)) = "file"]_vars

\* C30: the count of moved files that move_dir_with_skip and
\* move_directory_with_skip give is at most the count of all files, also for
\* a target inside the source.
C30_MovedAtMostTotal ==
    last.op \in {"move_dir_with_skip", "move_directory_with_skip"} =>
        last.moved <= last.total

\* C25: when the walk of move_and_link left at least one file behind and
\* still reported success, no link is made at the source path, the registry
\* and its file are not changed, the call reports failure, and the files are
\* left split: those left in the source directory, those moved in the target.
C25_ResidueBlocksLink ==
    [][(last'.op = "relocate" /\ last'.moveOk /\ last'.moved < last'.total) =>
          /\ ~last'.linked
          /\ last'.ret = "failed"
          /\ data' = data /\ disk' = disk
          /\ At(fs', last'.src).kind = "dir"
          /\ At(fs', last'.src).n = last'.total - last'.moved
          /\ At(fs', last'.dst).kind = "dir"
          /\ At(fs', last'.dst).n = last'.moved]_vars

\* Nine of ten files were moved, the move counted as done, and the call failed
\* with one file in the source directory
C25_Witness ==
    /\ last.op = "relocate" /\ last.moveOk /\ ~last.raised
    /\ last.moved = last.total - 1 /\ last.moved > 0
    /\ last.ret = "failed" /\ ~last.linked
    /\ At(fs, last.src).kind = "dir" /\ At(fs, last.src).n = 1

\* C26: whenever move_and_link reports failure, no symbolic link is at the
\* source path, also when the link was made and the save of its record raised.
C26_FailureLeavesNoLink ==
    (last.op = "relocate" /\ last.ret = "failed") => ~IsSymlink(fs, last.src)

C28_FailedSaveLeavesMemory ==
    [][(last'.op = "upsert" /\ last'.raised) => data' = data]_vars

\* C29: a load leaves the registry file as it is, and when the load of a file
\* that is no TOML left the default registry, the first record_link that
\* saves leaves a file that holds the new record and no other.
C29_DegradedLoadThenUpsert ==
    [][/\ last'.op = "load" => disk' = disk
       /\ (/\ last.op = "load" /\ Malformed(disk) /\ data = DefaultData
           /\ last'.op = "upsert" /\ ~last'.raised) =>
              /\ disk' = Dump(data')
              /\ Reload(disk', tomllib).links =
                   <<NewItem(last'.dst, last'.src, last'.type, Get(data'.links[1], "created_at"))>>]_vars

\* A file that held a record and was no TOML was replaced by one with the new record alone
C29_Witness ==
    /\ last.op = "upsert" /\ ~last.raised
    /\ Malformed(last.kept)
    /\ \E i, j \in 1..Len(last.kept) :
          /\ i < j /\ last.kept[i].t = "header"
          /\ last.kept[j].t = "kv" /\ last.kept[j].k = "link"
    /\ Len(data.links) = 1
    /\ disk = Dump(data)

====
